---- MODULE Spec2Model ----
(***************************************************************************)
(* uma-bingo: a coupon-collector simulation over 8 prizes (src/main.rs).   *)
(*                                                                         *)
(* run_sim rolls prizes until all 8 have been earned; main runs `runs`     *)
(* simulations, prints the mean number of rolls, bins the lengths of the   *)
(* simulations into hist_data and draws the chart.                         *)
(*                                                                         *)
(* The random source (rand::rng) is the environment: every call of         *)
(* random_range(0..8) may return any of the 8 values (Spec, SimSpec,       *)
(* LiveSpec).  ScriptedSpec is the program run on a source whose values    *)
(* are fixed beforehand, where what a simulation returns can be compared   *)
(* with the values it was fed.                                             *)
(*                                                                         *)
(* The program pushes rolls to a Vec and reads nothing of it but its       *)
(* length.  A Vec<RollResult> is represented by its length and the set of  *)
(* the prizes pushed to it; its items in order are kept as well when the   *)
(* source is scripted (25 free rolls of 8 prizes cannot be enumerated as   *)
(* sequences).                                                             *)
(***************************************************************************)
EXTENDS Integers, Sequences, FiniteSets, TLC

\* ---------------------------------------------------------------- bounds
\* number of simulations main may run (`runs`, 1000000 in the source)
MaxRuns == 2
\* longest period of a periodic script of the source
MaxPeriod == 2
\* most repetitions of a value in a ramp script of the source
MaxRepeat == 3

\* ------------------------------------------------------ program constants
\* number of prizes: length of earned_prizes, bound of random_range(0..8)
NumPrizes == 8
\* results.len() < 25 selects the random roll
Threshold == 25
\* max_count > 500 selects the wide label area
LabelCutoff == 500
\* 0..max_count + 5 is the vertical range of the chart
ChartHeadroom == 5

VARIABLES
    pc,                   \* control point of main / run_sim
    runs,                 \* main: number of simulations to run
    main_results,         \* main: results, one Vec<RollResult> per simulation
    results,              \* run_sim: results of the running simulation
    earned_prizes,        \* run_sim: [bool; 8], indexed 0..7
    draws,                \* calls of random_range made by the running simulation
    mean,                 \* the printed average
    hist_data,            \* HashMap<usize, usize>
    hist_iter,            \* number of elements consumed by `for sim_res in results`
    max_count,
    left_label_area_size,
    file_name,            \* the image file of the chart
    y_range,              \* the vertical range of the chart
    script,               \* the values a scripted source returns, in a cycle; <<>>: free source
    pos,                  \* scripted source: number of values returned, modulo the cycle
    fed,                  \* scripted source: values returned to the running simulation
    main_fed              \* scripted source: values returned to each finished simulation

vars == <<pc, runs, main_results, results, earned_prizes, draws, mean, hist_data,
          hist_iter, max_count, left_label_area_size, file_name, y_range,
          script, pos, fed, main_fed>>

\* ------------------------------------------------------------ RollResult
\* enum RollResult, in declaration order
RollResult ==
    <<"FirstPrize", "SecondPrize", "ThirdPrize", "FourthPrize",
      "FifthPrize", "SixthPrize", "SeventhPrize", "EighthPrize">>

Ok(v) == [ok |-> TRUE, val |-> v]
Err(e) == [ok |-> FALSE, val |-> e]
Some(v) == [some |-> TRUE, val |-> v]
None == [some |-> FALSE, val |-> 0]

\* impl TryFrom<usize> for RollResult
TryFromUsize(value) ==
    CASE value = 0 -> Ok("FirstPrize")
      [] value = 1 -> Ok("SecondPrize")
      [] value = 2 -> Ok("ThirdPrize")
      [] value = 3 -> Ok("FourthPrize")
      [] value = 4 -> Ok("FifthPrize")
      [] value = 5 -> Ok("SixthPrize")
      [] value = 6 -> Ok("SeventhPrize")
      [] value = 7 -> Ok("EighthPrize")
      [] OTHER -> Err("Can only convert 0..=7 to RollResult")

\* a conversion that sends the last two prizes to the same slot
UsizeFromSkewed(value) ==
    CASE value = "FirstPrize" -> 0
      [] value = "SecondPrize" -> 1
      [] value = "ThirdPrize" -> 2
      [] value = "FourthPrize" -> 3
      [] value = "FifthPrize" -> 4
      [] value = "SixthPrize" -> 5
      [] value = "SeventhPrize" -> 6
      [] value = "EighthPrize" -> 6

\* impl From<&RollResult> for usize
UsizeFrom(value) ==
    CASE value = "FirstPrize" -> 0
      [] value = "SecondPrize" -> 1
      [] value = "ThirdPrize" -> 2
      [] value = "FourthPrize" -> 3
      [] value = "FifthPrize" -> 4
      [] value = "SixthPrize" -> 5
      [] value = "SeventhPrize" -> 6
      [] value = "EighthPrize" -> 7

\* ------------------------------------------------------------ random source
\* the values rng.random_range(0..8) may return
RandomRange == 0..(NumPrizes - 1)

\* the source is scripted: its values were fixed before the program started
Scripted == script # <<>>

\* the values the next call of rng.random_range(0..8) may return
SourceValues == IF Scripted THEN {script[pos + 1]} ELSE RandomRange

\* the source after it returned value
SourcePos == IF Scripted THEN (pos + 1) % Len(script) ELSE pos
SourceFed(value) == IF Scripted THEN Append(fed, value) ELSE fed

\* every index from start on, cyclically, each returned `repeat` times
Ramp(start, repeat) ==
    [k \in 1..(NumPrizes * repeat) |-> (start + ((k - 1) \div repeat)) % NumPrizes]

\* the scripts: every cycle of up to MaxPeriod values, and every ramp
Scripts ==
    UNION {[1..n -> RandomRange] : n \in 1..MaxPeriod}
    \cup {Ramp(start, repeat) : start \in RandomRange, repeat \in 1..MaxRepeat}

\* ---------------------------------------------------------------------- Vec
\* Vec::new()
VecNew == [len |-> 0, elems |-> {}, items |-> <<>>]

\* vec.push(x)
VecPush(vec, x) ==
    [len |-> vec.len + 1,
     elems |-> vec.elems \cup {x},
     items |-> IF Scripted THEN Append(vec.items, x) ELSE vec.items]

\* ------------------------------------------------------------------ run_sim
\* earned_prizes.iter().filter(|&&earned| earned).count()
EarnedCount(earned) == Cardinality({i \in DOMAIN earned : earned[i]})

\* a loop condition that is satisfied one prize early
LoopCondEarly(earned) == EarnedCount(earned) < NumPrizes - 1

\* a loop condition that still holds when every prize is earned
LoopCondLate(earned) == EarnedCount(earned) <= NumPrizes

\* while earned_prizes...count() < 8
LoopCond(earned) == EarnedCount(earned) < NumPrizes

\* a threshold test that lets one more roll be random
UseRandomLate(len) == len <= Threshold

\* a threshold test that starts the fallback one roll early
UseRandomEarly(len) == len < Threshold - 1

\* if results.len() < 25
UseRandom(len) == len < Threshold

\* a search that returns the first prize whatever has been earned
FindUnearnedFirstSlot(earned) == Some(0)

\* earned_prizes.iter().enumerate().find_map(|(index, &earned)| if !earned {Some(index)} else {None})
FindUnearned(earned) ==
    LET unearned == {i \in DOMAIN earned : ~earned[i]}
    IN  IF unearned = {} THEN None
        ELSE Some(CHOOSE i \in unearned : \A j \in unearned : i <= j)

\* earned_prizes[usize::from(&roll_result)] = true
MarkEarned(earned, roll_result) == [earned EXCEPT ![UsizeFrom(roll_result)] = TRUE]

\* --------------------------------------------------------------------- main
\* hist_data.entry(k).and_modify(..).or_insert(0): the first occurrence is not counted
HistEntryFromZero(hist, k) ==
    IF k \in DOMAIN hist
    THEN [hist EXCEPT ![k] = @ + 1]
    ELSE [x \in DOMAIN hist \cup {k} |-> IF x = k THEN 0 ELSE hist[x]]

\* hist_data.entry(sim_res.len()).and_modify(|count| *count += 1).or_insert(1)
HistEntry(hist, k) ==
    IF k \in DOMAIN hist
    THEN [hist EXCEPT ![k] = @ + 1]
    ELSE [x \in DOMAIN hist \cup {k} |-> IF x = k THEN 1 ELSE hist[x]]

\* results.iter().fold(0, |sum, sim_res| sum + sim_res.len())
RECURSIVE FoldLen(_)
FoldLen(sims) ==
    IF sims = <<>> THEN 0
    ELSE FoldLen(SubSeq(sims, 1, Len(sims) - 1)) + sims[Len(sims)].len

\* sum as f32 / runs as f32: a float division never traps, 0.0 / 0.0 is NaN
FloatDiv(num, den) ==
    IF den = 0
    THEN [kind |-> IF num = 0 THEN "NaN" ELSE "inf", num |-> num, den |-> den]
    ELSE [kind |-> "finite", num |-> num, den |-> den]

\* hist_data.values().max()
MaxValue(hist) ==
    IF DOMAIN hist = {} THEN None
    ELSE Some(CHOOSE c \in {hist[k] : k \in DOMAIN hist} :
                \A k \in DOMAIN hist : hist[k] <= c)

NoEarned == [i \in 0..(NumPrizes - 1) |-> FALSE]
NoHist == [k \in {} |-> 0]
NoMean == [kind |-> "unset", num |-> 0, den |-> 0]
NoFile == <<>>
NoRange == <<>>

\* main before its for loop; runs is 1000000 in the source
InitMain ==
    /\ pc = "main_for"
    /\ runs \in 1..MaxRuns
    /\ main_results = <<>>
    /\ results = VecNew
    /\ earned_prizes = NoEarned
    /\ draws = 0
    /\ mean = NoMean
    /\ hist_data = NoHist
    /\ hist_iter = 0
    /\ max_count = 0
    /\ left_label_area_size = 0
    /\ file_name = NoFile
    /\ y_range = NoRange
    /\ pos = 0
    /\ fed = <<>>
    /\ main_fed = <<>>

Init == InitMain /\ script = <<>>

\* a call of run_sim that goes on with the Vec of the previous call
CallRunSimStale ==
    /\ pc = "main_for"
    /\ Len(main_results) < runs
    /\ pc' = "run_sim"
    /\ results' = results
    /\ earned_prizes' = NoEarned
    /\ draws' = 0
    /\ fed' = <<>>
    /\ UNCHANGED <<runs, main_results, mean, hist_data, hist_iter, max_count,
                   left_label_area_size, file_name, y_range, script, pos, main_fed>>

\* for _ in 0..runs { results.push(run_sim()) }: enter run_sim
CallRunSim ==
    /\ pc = "main_for"
    /\ Len(main_results) < runs
    /\ pc' = "run_sim"
    /\ results' = VecNew
    /\ earned_prizes' = NoEarned
    /\ draws' = 0
    /\ fed' = <<>>
    /\ UNCHANGED <<runs, main_results, mean, hist_data, hist_iter, max_count,
                   left_label_area_size, file_name, y_range, script, pos, main_fed>>

\* one iteration of the while loop, random branch
RollRandom ==
    /\ pc = "run_sim"
    /\ LoopCond(earned_prizes)
    /\ UseRandom(results.len)
    /\ \E value \in SourceValues :
        LET converted == TryFromUsize(value)
        IN  /\ draws' = draws + 1
            /\ pos' = SourcePos
            /\ fed' = SourceFed(value)
            /\ IF converted.ok
               THEN /\ earned_prizes' = MarkEarned(earned_prizes, converted.val)
                    /\ results' = VecPush(results, converted.val)
                    /\ pc' = "run_sim"
               ELSE /\ pc' = "panic_sample"
                    /\ UNCHANGED <<earned_prizes, results>>
    /\ UNCHANGED <<runs, main_results, mean, hist_data, hist_iter, max_count,
                   left_label_area_size, file_name, y_range, script, main_fed>>

\* one iteration of the while loop, fallback branch
RollFallback ==
    /\ pc = "run_sim"
    /\ LoopCond(earned_prizes)
    /\ ~UseRandom(results.len)
    /\ LET found == FindUnearned(earned_prizes)
           converted == TryFromUsize(found.val)
       IN  IF ~found.some
           THEN /\ pc' = "panic_find_map"
                /\ UNCHANGED <<earned_prizes, results>>
           ELSE IF ~converted.ok
           THEN /\ pc' = "panic_try_into"
                /\ UNCHANGED <<earned_prizes, results>>
           ELSE /\ earned_prizes' = MarkEarned(earned_prizes, converted.val)
                /\ results' = VecPush(results, converted.val)
                /\ pc' = "run_sim"
    /\ UNCHANGED <<runs, main_results, draws, mean, hist_data, hist_iter, max_count,
                   left_label_area_size, file_name, y_range, script, pos, fed, main_fed>>

\* the loop condition fails: run_sim returns results, main pushes it
ReturnSim ==
    /\ pc = "run_sim"
    /\ ~LoopCond(earned_prizes)
    /\ main_results' = Append(main_results, results)
    /\ main_fed' = Append(main_fed, fed)
    /\ pc' = "main_for"
    /\ UNCHANGED <<runs, results, earned_prizes, draws, mean, hist_data, hist_iter,
                   max_count, left_label_area_size, file_name, y_range, script, pos, fed>>

\* the for loop is exhausted: print the average, create hist_data
PrintMean ==
    /\ pc = "main_for"
    /\ ~(Len(main_results) < runs)
    /\ mean' = FloatDiv(FoldLen(main_results), runs)
    /\ \/ /\ pc' = "hist_for"
          /\ hist_data' = NoHist
          /\ hist_iter' = 0
       \/ \* the write to stdout fails: println! panics after its argument
          \* was evaluated, hist_data is never created
          /\ pc' = "panic_print"
          /\ UNCHANGED <<hist_data, hist_iter>>
    /\ UNCHANGED <<runs, main_results, results, earned_prizes, draws, max_count,
                   left_label_area_size, file_name, y_range, script, pos, fed, main_fed>>

\* for sim_res in results { hist_data.entry(..)... }
HistStep ==
    /\ pc = "hist_for"
    /\ hist_iter < Len(main_results)
    /\ hist_data' = HistEntry(hist_data, main_results[hist_iter + 1].len)
    /\ hist_iter' = hist_iter + 1
    /\ UNCHANGED <<pc, runs, main_results, results, earned_prizes, draws, mean,
                   max_count, left_label_area_size, file_name, y_range,
                   script, pos, fed, main_fed>>

\* let max_count = *hist_data.values().max().unwrap(); the label area size
MaxCount ==
    /\ pc = "hist_for"
    /\ ~(hist_iter < Len(main_results))
    /\ LET m == MaxValue(hist_data)
       IN  IF m.some
           THEN /\ max_count' = m.val
                /\ left_label_area_size' = IF m.val > LabelCutoff THEN 100 ELSE 50
                /\ pc' = "plot"
           ELSE /\ pc' = "panic_max"
                /\ UNCHANGED <<max_count, left_label_area_size>>
    /\ UNCHANGED <<runs, main_results, results, earned_prizes, draws, mean,
                   hist_data, hist_iter, file_name, y_range, script, pos, fed, main_fed>>

\* The chart is drawn by the plotters crate, which is outside the program: each of
\* its calls may succeed or fail.

\* file_name, BitMapBackend::new, root.fill(&WHITE)?: an error is returned by main
FillRoot ==
    /\ pc = "plot"
    /\ file_name' = <<"output/", runs, "-sim.png">>
    /\ \/ pc' = "build_chart"
       \/ pc' = "return_err_fill"
    /\ UNCHANGED <<runs, main_results, results, earned_prizes, draws, mean,
                   hist_data, hist_iter, max_count, left_label_area_size, y_range,
                   script, pos, fed, main_fed>>

\* ChartBuilder::on(&root) ... build_cartesian_2d(.., 0..max_count + 5).unwrap()
BuildChart ==
    /\ pc = "build_chart"
    /\ \/ /\ pc' = "draw_mesh"
          /\ y_range' = <<0, max_count + ChartHeadroom>>
       \/ /\ pc' = "panic_build_chart"
          /\ UNCHANGED y_range
    /\ UNCHANGED <<runs, main_results, results, earned_prizes, draws, mean,
                   hist_data, hist_iter, max_count, left_label_area_size, file_name,
                   script, pos, fed, main_fed>>

\* chart_context.configure_mesh() ... .draw().unwrap()
DrawMesh ==
    /\ pc = "draw_mesh"
    /\ \/ pc' = "draw_series"
       \/ pc' = "panic_draw_mesh"
    /\ UNCHANGED <<runs, main_results, results, earned_prizes, draws, mean,
                   hist_data, hist_iter, max_count, left_label_area_size, file_name,
                   y_range, script, pos, fed, main_fed>>

\* chart_context.draw_series(..).unwrap(); Ok(())
DrawSeries ==
    /\ pc = "draw_series"
    /\ \/ pc' = "done"
       \/ pc' = "panic_draw_series"
    /\ UNCHANGED <<runs, main_results, results, earned_prizes, draws, mean,
                   hist_data, hist_iter, max_count, left_label_area_size, file_name,
                   y_range, script, pos, fed, main_fed>>

Next ==
    \/ CallRunSim
    \/ RollRandom
    \/ RollFallback
    \/ ReturnSim
    \/ PrintMean
    \/ HistStep
    \/ MaxCount
    \/ FillRoot
    \/ BuildChart
    \/ DrawMesh
    \/ DrawSeries

Spec == Init /\ [][Next]_vars

\* The program with a batch of one simulation.
SimInit == Init /\ runs = 1
SimSpec == SimInit /\ [][Next]_vars

\* The program is a single thread that runs until it returns or panics: a step
\* that can be taken is taken.  Nothing is assumed about the values the random
\* source returns.
LiveSpec == SimSpec /\ WF_vars(Next)

\* The program run on a scripted source: the source returns the values of the
\* script in order, again and again, to the simulations of the batch.
ScriptedInit == InitMain /\ script \in Scripts
ScriptedSpec == ScriptedInit /\ [][Next]_vars

\* ------------------------------------------------------------- aggregation
\* The part of main that follows the for loop, started in the states in which
\* the for loop ends: `runs` simulations have been pushed, each as run_sim
\* returns it, and the locals of run_sim are as its last call left them.
RunSimReturns ==
    {[len |-> n, elems |-> {RollResult[k] : k \in 1..Len(RollResult)}, items |-> <<>>] :
        n \in NumPrizes..(Threshold + NumPrizes - 1)}

ForLoopDone ==
    /\ pc = "main_for"
    /\ runs \in 1..MaxRuns
    /\ main_results \in [1..runs -> RunSimReturns]
    /\ results = main_results[runs]
    /\ earned_prizes = [i \in 0..(NumPrizes - 1) |-> TRUE]
    /\ draws = (IF results.len < Threshold THEN results.len ELSE Threshold)
    /\ mean = NoMean
    /\ hist_data = NoHist
    /\ hist_iter = 0
    /\ max_count = 0
    /\ left_label_area_size = 0
    /\ file_name = NoFile
    /\ y_range = NoRange
    /\ script = <<>>
    /\ pos = 0
    /\ fed = <<>>
    /\ main_fed = [k \in 1..runs |-> <<>>]

AggNext ==
    \/ PrintMean
    \/ HistStep
    \/ MaxCount
    \/ FillRoot
    \/ BuildChart
    \/ DrawMesh
    \/ DrawSeries

AggSpec == ForLoopDone /\ [][AggNext]_vars

\* Under Spec the for loop ends in the states of ForLoopDone only.
ForLoopEndsInForLoopDone == ENABLED PrintMean => ForLoopDone

\* ------------------------------------------------------------- vocabulary
AllPrizes == {RollResult[k] : k \in 1..Len(RollResult)}
\* the prize declared at position i of the enum, counted from 0
PrizeAt(i) == RollResult[i + 1]
\* the position of a prize in the enum, counted from 0
IndexOf(prize) == CHOOSE i \in 0..(NumPrizes - 1) : RollResult[i + 1] = prize
\* the indices of the prizes that are not in the set elems
MissingIn(elems) == {i \in 0..(NumPrizes - 1) : PrizeAt(i) \notin elems}
LowestOf(S) == CHOOSE i \in S : \A j \in S : i <= j
Finished == 1..Len(main_results)
InRunSim == pc = "run_sim"
\* main_results changes only when run_sim returns, which leaves main at the head
\* of its for loop: the returned simulations are examined there
AtReturn == pc = "main_for"
\* a roll is taken in this step: the loop body runs, whether it ends in a push or a panic
RollStep == InRunSim /\ pc' # "main_for"
\* run_sim returns in this step
ReturnStep == InRunSim /\ pc' = "main_for"
\* the histogram loop has started
AfterMean ==
    pc \notin {"main_for", "run_sim", "panic_sample", "panic_find_map", "panic_try_into",
               "panic_print"}

\* ---------------------------------------------------------------------- C1
\* C1: every simulation returned by run_sim has between 8 and 32 rolls, and so
\* has every key of hist_data.
C1_LengthInRange ==
    /\ AtReturn => \A k \in Finished : main_results[k].len \in 8..32
    /\ DOMAIN hist_data \subseteq 8..32

\* the longest simulation possible was returned and binned
C1_Witness ==
    /\ pc = "plot"
    /\ 32 \in DOMAIN hist_data

\* ---------------------------------------------------------------------- C6
RECURSIVE SumOver(_, _)
SumOver(S, f) ==
    IF S = {} THEN 0
    ELSE LET k == CHOOSE x \in S : TRUE IN f[k] + SumOver(S \ {k}, f)

\* the number of simulations of length len among the first n
CountLen(n, len) == Cardinality({k \in 1..n : main_results[k].len = len})

\* C6: after the histogram loop has consumed n simulations, hist_data[k] is the
\* number of those of length k, absent keys standing for zero and present keys
\* holding at least 1; at the end of the loop of a batch of runs >= 1 the counts
\* sum to runs and the sum of k * count is the sum the mean was computed from.
C6_HistogramAgrees ==
    (AfterMean /\ runs >= 1) =>
        /\ \A len \in 0..(Threshold + NumPrizes) :
            IF len \in DOMAIN hist_data
            THEN hist_data[len] >= 1 /\ hist_data[len] = CountLen(hist_iter, len)
            ELSE CountLen(hist_iter, len) = 0
        /\ DOMAIN hist_data \subseteq 0..(Threshold + NumPrizes)
        /\ mean.kind = "finite" /\ mean.den = runs
        /\ hist_iter = Len(main_results) =>
            /\ SumOver(DOMAIN hist_data, hist_data) = runs
            /\ SumOver(DOMAIN hist_data, [k \in DOMAIN hist_data |-> k * hist_data[k]])
                 = mean.num

\* two simulations of the same length were counted under one key
C6_Witness ==
    /\ pc = "plot"
    /\ runs = 2
    /\ \E k \in DOMAIN hist_data : hist_data[k] = 2

\* ---------------------------------------------------------------------- C2
\* C2: run_sim returns only a Vec that holds every prize, and it takes a roll only
\* while some prize is missing from the Vec: the roll after which every prize is
\* present adds the last missing one and is the last roll.
C2_EndsWhenAllEarned ==
    /\ [](AtReturn => \A k \in Finished : main_results[k].elems = AllPrizes)
    /\ [][ReturnStep =>
            /\ results.elems = AllPrizes
            /\ main_results' = Append(main_results, results)]_vars
    /\ [][RollStep =>
            /\ results.elems # AllPrizes
            /\ results'.elems = AllPrizes =>
                 Cardinality(results'.elems \ results.elems) = 1]_vars

\* a simulation ended on a random roll that was not its 8th
C2_Witness ==
    /\ AtReturn
    /\ \E k \in Finished :
        main_results[k].len > NumPrizes /\ main_results[k].len < Threshold

\* ---------------------------------------------------------------------- C3
\* C3: a simulation that has started returns to main, whatever the random
\* source does, and never holds more than 32 rolls.
C3_Terminates ==
    /\ [](results.len <= 32)
    /\ (pc = "run_sim") ~> (pc = "main_for")

\* a simulation returned although the source gave one value at each of its 25 calls
C3_Witness ==
    /\ pc = "main_for"
    /\ \E k \in Finished : main_results[k].len = 32

\* ---------------------------------------------------------------------- C4
\* The first n rolls of a simulation are random and the later ones are not: the
\* source has been called once for each of the first n rolls and for no other;
\* while fewer than n rolls were taken the next roll may be any of the 8 prizes,
\* earned or not; a later roll calls the source not at all and can only be the
\* lowest-indexed prize missing from results.
RollMayPush(p) == ENABLED ((RollRandom \/ RollFallback) /\ results' = VecPush(results, p))
RollMayCallSource == ENABLED ((RollRandom \/ RollFallback) /\ draws' # draws)

RandomThenLowest(n) ==
    InRunSim =>
        /\ draws = (IF results.len < n THEN results.len ELSE n)
        /\ (results.len < n /\ results.elems # AllPrizes) =>
            \A p \in AllPrizes : RollMayPush(p)
        /\ (results.len >= n /\ results.elems # AllPrizes) =>
            /\ ~RollMayCallSource
            /\ \A p \in AllPrizes :
                RollMayPush(p) <=> p = PrizeAt(LowestOf(MissingIn(results.elems)))

\* C4 as stated: exactly the first 24 rolls are random, the 25th and later rolls
\* are the lowest-indexed unearned prize.
C4_First24Random == RandomThenLowest(24)

\* C4 amended: exactly the first 25 rolls are random, the 26th and later rolls
\* are the lowest-indexed unearned prize.
C4_First25Random == RandomThenLowest(25)

\* the 25th roll repeated a prize earned before it, and a 26th roll followed
C4_Witness ==
    /\ InRunSim
    /\ results.len = Threshold + 1
    /\ draws = Threshold
    /\ Cardinality(results.elems) = 2

\* ---------------------------------------------------------------------- C7
\* the prizes of the indices in S, in ascending order of index
RECURSIVE Ascending(_)
Ascending(S) ==
    IF S = {} THEN <<>>
    ELSE <<PrizeAt(LowestOf(S))>> \o Ascending(S \ {LowestOf(S)})

\* the prizes the source values d stand for, in the order of d
PrizesOf(d) == [i \in 1..Len(d) |-> PrizeAt(d[i])]

\* C7: what a simulation returns is fixed by the values the source returned to
\* it: two simulations of a batch that were fed the same values returned the
\* same rolls in the same order; the rolls are the prizes of the values fed,
\* one roll for each value, and, when the source was called 25 times, after
\* them the prizes that no value fed stands for, in ascending order of index.
C7_Deterministic ==
    (Scripted /\ AtReturn) =>
        /\ \A j, k \in Finished :
            main_fed[j] = main_fed[k] => main_results[j].items = main_results[k].items
        /\ \A k \in Finished :
            LET d == main_fed[k]
                rolled == PrizesOf(d)
                missing == MissingIn({rolled[i] : i \in 1..Len(d)})
            IN  /\ Len(d) <= Threshold
                /\ main_results[k].len = Len(main_results[k].items)
                /\ SubSeq(main_results[k].items, 1, Len(d)) = rolled
                /\ SubSeq(main_results[k].items, Len(d) + 1, main_results[k].len)
                     = (IF Len(d) = Threshold THEN Ascending(missing) ELSE <<>>)

\* two simulations were fed the same 25 values, all of one prize, and each
\* returned them followed by the seven other prizes
C7_Witness ==
    /\ Scripted /\ AtReturn
    /\ Len(main_results) = 2
    /\ main_fed[1] = main_fed[2]
    /\ Len(main_fed[2]) = Threshold
    /\ main_results[2].len = Threshold + NumPrizes - 1
    /\ main_results[1].items = main_results[2].items

\* ---------------------------------------------------------------------- C8
\* C8: a roll taken when results holds 25 or more rolls pushes a prize that was
\* not earned before, raises the number of earned prizes by exactly one, and is
\* at most the 7th such roll.
C8_FallbackEarnsNew ==
    [][(RollStep /\ results.len >= 25) =>
        /\ results'.len = results.len + 1
        /\ results'.elems # results.elems
        /\ EarnedCount(earned_prizes') = EarnedCount(earned_prizes) + 1
        /\ results'.len - 25 <= 7]_vars

\* seven rolls were taken after the 25th
C8_Witness ==
    /\ InRunSim
    /\ results.len = Threshold + 7

\* ---------------------------------------------------------------------- C9
\* C9: whenever the fallback branch runs some entry of earned_prizes is false,
\* the index found is in 0..7 and the roll is pushed: neither unwrap panics.
C9_FallbackNeverPanics ==
    [][(RollStep /\ results.len >= 25) =>
        /\ \E i \in 0..7 : ~earned_prizes[i]
        /\ \E i \in 0..7 : /\ ~earned_prizes[i]
                           /\ \A j \in 0..(i - 1) : earned_prizes[j]
                           /\ earned_prizes'[i]
        /\ pc' = "run_sim"]_vars

\* the fallback ran with exactly one prize left to earn
C9_Witness ==
    /\ InRunSim
    /\ EarnedCount(earned_prizes) = NumPrizes
    /\ results.len = Threshold + 1

\* --------------------------------------------------------------------- C10
\* C10: whenever the loop condition is evaluated, earned_prizes[i] is true
\* exactly when prize i occurs in results, so the number of true entries is at
\* most the number of rolls; and a roll never resets an entry.
C10_EarnedMirrorsResults ==
    /\ [](InRunSim =>
            /\ \A i \in 0..7 : earned_prizes[i] <=> PrizeAt(i) \in results.elems
            /\ EarnedCount(earned_prizes) <= results.len)
    /\ [][RollStep => \A i \in 0..7 : earned_prizes[i] => earned_prizes'[i]]_vars

\* a roll repeated an earned prize: fewer entries are true than rolls were taken
C10_Witness ==
    /\ InRunSim
    /\ EarnedCount(earned_prizes) = 3
    /\ results.len = 5
====
